---- MODULE Spec2Model ----
(***************************************************************************)
(* Model of update_rss.py: RSS feeds built from GitHub issues.             *)
(*                                                                         *)
(* Text (titles, links, bodies, descriptions) is a sequence of             *)
(* one-character strings, so that body slicing and the XML round trip of   *)
(* a persisted feed are computed character by character.  Names (feed,     *)
(* owner, repository, login, etag) are atomic strings.                     *)
(***************************************************************************)
EXTENDS Integers, Sequences, FiniteSets, TLC

VARIABLES
    pc,            \* position of main: "idle", "loop", "done", "aborted"
    run,           \* number of the run of main in progress (0 before the first)
    force,         \* main: FORCE_UPDATE
    enable_cache,  \* main: parameter enable_cache
    config,        \* main: read_config(), [order, opts]
    cache,         \* main: the map loaded by read_cache() (or {})
    new_cache,     \* main: the map built during the run
    need_commit,   \* main: the global change flag
    idx,           \* main: position of the for loop in config.order
    assets,        \* ASSETS_PATH/<name>.xml, one file per feed name
    req_cache,     \* cache/request_cache.json
    stdout,        \* tokens printed by the run in progress
    fetched,       \* this run: per feed, what the fetch returned
    sent,          \* this run: per feed, the If-None-Match header sent
    wrote,         \* this run: feeds whose document write completed
    raised,        \* this run: feeds that set need_commit
    assets0,       \* the feed documents as they were when the run started
    req_cache0,    \* the cache file as it was when the run started
    cache_io,      \* this run: [reads, writes] of the cache file
    abort,         \* this run: [at, why] of the uncaught exception, if any
    prev,          \* two consecutive runs: what the first run was given
    cmp            \* build and compare in isolation: inputs and results

vars == <<pc, run, force, enable_cache, config, cache, new_cache, need_commit,
          idx, assets, req_cache, stdout, fetched, sent, wrote, raised,
          assets0, req_cache0, cache_io, abort, prev, cmp>>

----------------------------------------------------------------------------
(* Characters and text *)

CR == "\r"
LF == "\n"
SP == " "
WhiteSpace == {SP, CR, LF}

None == [none |-> TRUE]

MinOf(S) == CHOOSE m \in S : \A n \in S : m <= n
MaxOf(S) == CHOOSE m \in S : \A n \in S : m >= n

\* str.lower() on the names used in the model
Lower(s) ==
    CASE s = "Alice" -> "alice"
      [] s = "Bob"   -> "bob"
      [] s = "O"     -> "o"
      [] s = "R1"    -> "r1"
      [] s = "R2"    -> "r2"
      [] OTHER       -> s

\* str.strip(): drop leading and trailing whitespace
strip(s) ==
    LET keep == {i \in 1..Len(s) : s[i] \notin WhiteSpace}
    IN  IF keep = {} THEN <<>> ELSE SubSeq(s, MinOf(keep), MaxOf(keep))

\* s.split("\r\n\r\n", 1)[0]: the text before the first blank line
first_paragraph(s) ==
    LET at == {i \in 1..(Len(s) - 3) :
                 /\ s[i] = CR /\ s[i+1] = LF /\ s[i+2] = CR /\ s[i+3] = LF}
    IN  IF at = {} THEN s ELSE SubSeq(s, 1, MinOf(at) - 1)

\* s.replace("\r\n", " ")
replace_crlf(s) ==
    LET positions == [i \in 1..Len(s) |-> i]
        NotLfOfPair(i) == ~(s[i] = LF /\ i > 1 /\ s[i-1] = CR)
        kept == SelectSeq(positions, NotLfOfPair)
    IN  [j \in 1..Len(kept) |->
            IF s[kept[j]] = CR /\ kept[j] < Len(s) /\ s[kept[j] + 1] = LF
            THEN SP ELSE s[kept[j]]]

DescLimit == 512
DescKeep == 509
Ellipsis == <<".", ".", ".">>

\* mutation: the cut keeps DescLimit characters before the ellipsis
description_CutAtLimit(body) ==
    LET desc == replace_crlf(first_paragraph(strip(body)))
    IN  IF Len(desc) > DescLimit
        THEN SubSeq(desc, 1, DescLimit) \o Ellipsis
        ELSE desc

\* lines 81-85: the description of an item
description(body) ==
    LET desc == replace_crlf(first_paragraph(strip(body)))
    IN  IF Len(desc) > DescLimit
        THEN SubSeq(desc, 1, DescKeep) \o Ellipsis
        ELSE desc

\* lines 89-92: ISO 8601 with "Z" to RFC 2822 with GMT; t is the instant
rfc_date(created_at) == [instant |-> created_at.instant, zone |-> "GMT"]

\* lines 94-99: scan the labels for "critical"
priority(labels) ==
    IF \E i \in 1..Len(labels) : labels[i].name = "critical"
    THEN "high" ELSE "normal"

\* line 101
make_guid(repo, number) == <<Lower(repo[1]), "/", Lower(repo[2]), "/issue/", number>>

----------------------------------------------------------------------------
(* ElementTree: text is written as it is (only &, <, > are escaped and     *)
(* restored); the parser normalises line ends, "\r\n" and a lone "\r"      *)
(* both read back as "\n".                                                 *)

xml_text(s) ==
    LET positions == [i \in 1..Len(s) |-> i]
        NotLfOfPair(i) == ~(s[i] = LF /\ i > 1 /\ s[i-1] = CR)
        kept == SelectSeq(positions, NotLfOfPair)
    IN  [j \in 1..Len(kept) |-> IF s[kept[j]] = CR THEN LF ELSE s[kept[j]]]

xml_item(item) ==
    [item EXCEPT !.title = xml_text(@), !.link = xml_text(@),
                 !.description = xml_text(@)]

----------------------------------------------------------------------------
(* hash_config, RssDocument *)

\* lines 138-144: SHA-256 of the name and the key-sorted options; the digest
\* is modelled as the pair it is computed from (no collisions)
\* options.items(): the (key, value) pairs of a dict in insertion order,
\* the dict given by its keys in that order and its values
dict_items(keys, options) ==
    [i \in 1..Len(keys) |-> <<keys[i], options[keys[i]]>>]

\* the order of str on the keys of a feed's options
KeyRank(key) ==
    CASE key = "authorized_creators" -> 1
      [] key = "description"         -> 2
      [] key = "repo_name"           -> 3
      [] key = "repo_owner"          -> 4

\* mutation: the items are serialised in insertion order
sorted_opts_Unsorted(items) == items

\* line 142, sorted(options.items()): the items in the order of their keys
sorted_opts(items) ==
    LET n == Len(items)
        rank(i) == Cardinality({j \in 1..n :
                        KeyRank(items[j][1]) <= KeyRank(items[i][1])})
    IN  [r \in 1..n |-> items[CHOOSE i \in 1..n : rank(i) = r]]

\* the parts joined by ", " as json.dumps separates members
RECURSIVE json_join(_)
json_join(parts) ==
    IF Len(parts) = 0 THEN <<>>
    ELSE IF Len(parts) = 1 THEN Head(parts)
    ELSE Head(parts) \o <<", ">> \o json_join(Tail(parts))

json_str(s) == <<"\"", s, "\"">>

json_list(l) ==
    <<"[">> \o json_join([i \in 1..Len(l) |-> json_str(l[i])]) \o <<"]">>

\* the value of authorized_creators is a list of strings, every other
\* value a string
json_value(key, value) ==
    IF key = "authorized_creators" THEN json_list(value) ELSE json_str(value)

\* line 142, json.dumps(dict(...)): the JSON text of the dict whose items
\* are given, as a sequence of tokens
json_dumps(items) ==
    <<"{">> \o
    json_join([i \in 1..Len(items) |->
                 json_str(items[i][1]) \o <<": ">> \o
                 json_value(items[i][1], items[i][2])]) \o
    <<"}">>

\* lines 139, 143-144: the hex digest of the bytes fed to the hash, SHA-256
\* taken as free of collisions
sha256(bytes) == [sha256 |-> bytes]

\* lines 138-144, the options given by their items in insertion order
hash_config_of(name, items) ==
    sha256(<<name>> \o json_dumps(sorted_opts(items)))

\* the keys of a feed's options in the order config.json gives them
KeysAsRead ==
    <<"repo_owner", "repo_name", "description", "authorized_creators">>


\* lines 51-71
RssDocument(name, options, cfg_hash, now) ==
    [name       |-> name,
     repo       |-> <<options.repo_owner, options.repo_name>>,
     authorized |-> {Lower(options.authorized_creators[i]) :
                        i \in 1..Len(options.authorized_creators)},
     date       |-> now,
     cfg_hash   |-> cfg_hash,
     items      |-> <<>>]

ItemKeys == {"title", "html_url", "body", "created_at", "labels", "number"}

HasLogin(issue) == "user" \in DOMAIN issue /\ "login" \in DOMAIN issue.user

\* mutation: the author's login is compared as it is written
IsAuthorized_CaseSensitive(doc, issue) == issue.user.login \in doc.authorized

IsAuthorized(doc, issue) == Lower(issue.user.login) \in doc.authorized

\* lines 75-102 raise KeyError on an issue that lacks a key they read
IssueRaises(doc, issue) ==
    \/ ~HasLogin(issue)
    \/ IsAuthorized(doc, issue) /\ ItemKeys \ DOMAIN issue # {}

\* lines 78-102
make_item(doc, issue) ==
    [title       |-> issue.title,
     link        |-> issue.html_url,
     description |-> description(issue.body),
     pubDate     |-> rfc_date(issue.created_at),
     category    |-> priority(issue.labels),
     guid        |-> make_guid(doc.repo, issue.number)]

\* lines 73-104: [ok, doc]; ok is FALSE when the loop raised
add_items_from_issues(doc, issues) ==
    IF \E i \in 1..Len(issues) : IssueRaises(doc, issues[i])
    THEN [ok |-> FALSE, doc |-> doc]
    ELSE LET positions == [i \in 1..Len(issues) |-> i]
             Auth(i) == IsAuthorized(doc, issues[i])
             kept == SelectSeq(positions, Auth)
         IN  [ok  |-> TRUE,
              doc |-> [doc EXCEPT !.items =
                         [j \in 1..Len(kept) |-> make_item(doc, issues[kept[j]])]]]

\* lines 133-136: the file that write() leaves
write(doc) ==
    [kind |-> "xml", config_hash |-> doc.cfg_hash, pubDate |-> doc.date,
     items |-> doc.items]

NoFile == [kind |-> "none"]
Corrupt == [kind |-> "corrupt"]

\* lines 154-155: etree.parse raises on a file that is not well formed
ParseRaises(file) == file.kind = "corrupt"

\* lines 146-166
get_feed_info(file) ==
    IF file.kind = "none"
    THEN [root |-> None, config_hash |-> None, last_pub |-> None]
    ELSE [root        |-> [items |-> [i \in 1..Len(file.items) |-> xml_item(file.items[i])]],
          config_hash |-> file.config_hash,
          last_pub    |-> file.pubDate]

\* mutation: the title is not compared
Tags_NoTitle == {"link", "description", "pubDate", "category"}

\* line 128
Tags == {"title", "link", "description", "pubDate", "category"}

\* mutation: the item counts are not compared
equals_NoCount(doc, feed_info) ==
    LET other_root == feed_info.root IN
    IF other_root = None THEN FALSE
    ELSE IF doc.cfg_hash # feed_info.config_hash THEN FALSE
    ELSE
      LET cur_items == doc.items
          last_items == other_root.items
          guids == {last_items[i].guid : i \in 1..Len(last_items)}
          last_uid_map == [g \in guids |->
              last_items[MaxOf({i \in 1..Len(last_items) : last_items[i].guid = g})]]
      IN  \A i \in 1..Len(cur_items) :
                 LET item == cur_items[i] IN
                 /\ item.guid # <<>>
                 /\ item.guid \in guids
                 /\ \A tag \in Tags : item[tag] = last_uid_map[item.guid][tag]

\* lines 106-131
equals(doc, feed_info) ==
    LET other_root == feed_info.root IN
    IF other_root = None THEN FALSE
    ELSE IF doc.cfg_hash # feed_info.config_hash THEN FALSE
    ELSE
      LET cur_items == doc.items
          last_items == other_root.items
          guids == {last_items[i].guid : i \in 1..Len(last_items)}
          \* a dict comprehension keeps the last node of each guid
          last_uid_map == [g \in guids |->
              last_items[MaxOf({i \in 1..Len(last_items) : last_items[i].guid = g})]]
      IN  IF Len(cur_items) # Len(last_items) THEN FALSE
          ELSE \A i \in 1..Len(cur_items) :
                 LET item == cur_items[i] IN
                 /\ item.guid # <<>>
                 /\ item.guid \in guids
                 /\ \A tag \in Tags : item[tag] = last_uid_map[item.guid][tag]

----------------------------------------------------------------------------
(* The inputs of the model: configurations, issues, responses *)

Names == {"f1", "f2"}

OptionsOf(repo, creators) ==
    [repo_owner |-> "O", repo_name |-> repo, description |-> "news",
     authorized_creators |-> creators]

\* config.json as first deployed, and after "Bob" was added to feed f1
ConfigA ==
    [order |-> <<"f1", "f2">>,
     opts  |-> [f1 |-> OptionsOf("R1", <<"Alice">>), f2 |-> OptionsOf("R2", <<"Alice">>)]]
ConfigB ==
    [order |-> <<"f1", "f2">>,
     opts  |-> [f1 |-> OptionsOf("R1", <<"Alice", "Bob">>), f2 |-> OptionsOf("R2", <<"Alice">>)]]
\* config.json after "Bob" was added to feed f1 and feed f2 was taken out
ConfigC ==
    [order |-> <<"f1">>,
     opts  |-> [f1 |-> OptionsOf("R1", <<"Alice", "Bob">>)]]

\* the configurations a run can start under
Configs == {ConfigA, ConfigC}

\* the options of the feeds above, and options that differ from them in
\* one value
HashOptions ==
    {ConfigA.opts["f1"], ConfigB.opts["f1"], ConfigA.opts["f2"],
     [ConfigA.opts["f1"] EXCEPT !.description = "old"],
     [ConfigA.opts["f1"] EXCEPT !.authorized_creators = <<"Bob", "Alice">>],
     [ConfigA.opts["f1"] EXCEPT !.authorized_creators = <<>>]}

\* lines 138-144 worked out once for every name and options of the model,
\* the keys inserted in the order of config.json
hash_config_table ==
    [name \in Names |->
        [options \in HashOptions |->
            hash_config_of(name, dict_items(KeysAsRead, options))]]

\* lines 138-144
hash_config(name, options) == hash_config_table[name][options]

\* str(number), one decimal digit
Digit(number) == <<"0", "1", "2", "3", "4", "5", "6", "7", "8", "9">>[number + 1]

Issue(login, number, title, body, labels) ==
    [user       |-> [login |-> login],
     title      |-> title,
     html_url   |-> <<"u", Digit(number)>>,
     body       |-> body,
     created_at |-> [instant |-> number, zone |-> "Z"],
     labels     |-> [i \in 1..Len(labels) |-> [name |-> labels[i]]],
     number     |-> number]

\* the issue without one of its keys
Without(issue, key) == [k \in DOMAIN issue \ {key} |-> issue[k]]

Issue1     == Issue("alice", 1, <<"a">>, <<"x", CR, LF, "y", CR, LF, CR, LF, "z">>, <<>>)
Issue1Edit == Issue("alice", 1, <<"b">>, <<"x", CR, LF, "y", CR, LF, CR, LF, "z">>, <<>>)
Issue2     == Issue("Alice", 2, <<"c">>, <<SP, "x", LF>>, <<"bug", "critical">>)
IssueCr    == Issue("alice", 3, <<"d">>, <<"x", CR, "y">>, <<>>)
IssueBob   == Issue("bob", 4, <<"e">>, <<"x">>, <<>>)
IssueBad   == Without(Issue("alice", 5, <<"f">>, <<"x">>, <<>>), "title")

\* what the issue tracker may answer with status 200, per feed
Upstream(name) ==
    IF name = "f1"
    THEN {<<Issue1>>, <<Issue2, IssueCr>>, <<IssueBob, IssueBad>>}
    ELSE {<<Issue2>>, <<IssueBad>>}

NoEtag == "None"
Etags == {"e1", "e2"}

EmptyDict == [k \in {} |-> None]

\* d[key] = value on a dict
Put(d, key, value) ==
    [k \in DOMAIN d \cup {key} |-> IF k = key THEN value ELSE d[k]]

NotFetched == [kind |-> "none", etag |-> NoEtag, issues |-> <<>>]

----------------------------------------------------------------------------
(* main *)

InitMain ==
    /\ pc = "idle"
    /\ run = 0
    /\ force = FALSE
    /\ enable_cache = FALSE
    /\ config = ConfigA
    /\ cache = EmptyDict
    /\ new_cache = EmptyDict
    /\ need_commit = FALSE
    /\ idx = 1
    /\ assets = [n \in Names |-> NoFile]
    /\ req_cache = [exists |-> FALSE, data |-> EmptyDict]
    /\ stdout = <<>>
    /\ fetched = [n \in Names |-> NotFetched]
    /\ sent = [n \in Names |-> NoEtag]
    /\ wrote = {}
    /\ raised = {}
    /\ assets0 = [n \in Names |-> NoFile]
    /\ req_cache0 = [exists |-> FALSE, data |-> EmptyDict]
    /\ cache_io = [reads |-> 0, writes |-> 0]
    /\ abort = [at |-> "", why |-> ""]
    /\ prev = [n \in Names |-> NotFetched]

Init ==
    /\ InitMain
    /\ cmp = [stage |-> "off"]

MaxRuns == 2

\* lines 168-172
read_cache == IF req_cache.exists THEN req_cache.data ELSE EmptyDict

\* mutation: new_cache starts as a copy of the loaded cache
new_cache_at_start_Copy(loaded) == loaded

\* line 194: new_cache starts empty whatever was loaded
new_cache_at_start(loaded) == EmptyDict

\* lines 184-196: main starts with the given FORCE_UPDATE, enable_cache and
\* config.json
main(f, c, cfg) ==
    /\ force' = f
    /\ enable_cache' = c
    /\ config' = cfg
    /\ cache' = (IF c THEN read_cache ELSE EmptyDict)
    /\ cache_io' = [reads  |-> (IF c /\ req_cache.exists THEN 1 ELSE 0),
                    writes |-> 0]
    /\ new_cache' = new_cache_at_start(cache')
    /\ need_commit' = FALSE
    /\ idx' = 1
    /\ pc' = "loop"
    /\ run' = run + 1
    /\ stdout' = <<>>
    /\ fetched' = [n \in Names |-> NotFetched]
    /\ sent' = [n \in Names |-> NoEtag]
    /\ wrote' = {}
    /\ raised' = {}
    /\ assets0' = assets
    /\ req_cache0' = req_cache
    /\ abort' = [at |-> "", why |-> ""]
    /\ UNCHANGED <<assets, req_cache, cmp>>

\* a run starts: the first, or the next after the previous one ended or died
Start ==
    /\ pc \in {"idle", "done", "aborted"}
    /\ run < MaxRuns
    /\ \E f \in BOOLEAN, c \in BOOLEAN, cfg \in Configs : main(f, c, cfg)
    /\ UNCHANGED prev

InLoop == pc = "loop" /\ idx <= Len(config.order)

\* line 197: the feed of this iteration
Name == config.order[idx]
Options == config.opts[Name]

\* line 198
repo_cache == IF Name \in DOMAIN cache THEN cache[Name] ELSE EmptyDict

\* line 201
cfg_hash == hash_config(Name, Options)

\* mutation: the entry starts empty instead of as a copy of repo_cache
WithEntry_NotCopied ==
    Put(new_cache, Name, Put(EmptyDict, "config_hash", cfg_hash))

\* lines 199-202: new_cache after the entry of this feed is set up
WithEntry ==
    Put(new_cache, Name, Put(repo_cache, "config_hash", cfg_hash))

\* mutation: the stored ETag is used only under the stored config hash
etag_IfSameConfig ==
    IF /\ "etag" \in DOMAIN repo_cache
       /\ "config_hash" \in DOMAIN repo_cache
       /\ repo_cache["config_hash"] = cfg_hash
    THEN repo_cache["etag"] ELSE NoEtag

\* line 214
etag == IF "etag" \in DOMAIN repo_cache THEN repo_cache["etag"] ELSE NoEtag

\* mutation: the ETag of the response is not stored
WithEtag_Dropped(header) == WithEntry

\* lines 225-226
WithEtag(header) ==
    IF header = NoEtag THEN WithEntry
    ELSE Put(WithEntry, Name, Put(WithEntry[Name], "etag", header))

\* lines 227-229
Built(issues) ==
    add_items_from_issues(RssDocument(Name, Options, cfg_hash, run), issues)

\* mutation: FORCE_UPDATE is ignored
Changed_NoForce(doc, feed_info) == ~equals(doc, feed_info)

\* line 230
Changed(doc, feed_info) == ~equals(doc, feed_info) \/ force

\* mutation: a failing run still saves the cache it has built so far
Dies_SavesCache(why) ==
    /\ pc' = "aborted"
    /\ abort' = [at |-> Name, why |-> why]
    /\ req_cache' = IF enable_cache
                    THEN [exists |-> TRUE, data |-> new_cache]
                    ELSE req_cache
    /\ cache_io' = IF enable_cache
                   THEN [cache_io EXCEPT !.writes = @ + 1]
                   ELSE cache_io
    /\ UNCHANGED <<run, force, enable_cache, config, cache, idx,
                   stdout, assets0, req_cache0, prev, cmp>>

Dies(why) ==
    /\ pc' = "aborted"
    /\ abort' = [at |-> Name, why |-> why]
    /\ UNCHANGED <<run, force, enable_cache, config, cache, idx, req_cache,
                   stdout, assets0, req_cache0, cache_io, prev, cmp>>

Continues ==
    /\ idx' = idx + 1
    /\ UNCHANGED <<pc, run, force, enable_cache, config, cache, req_cache,
                   stdout, assets0, req_cache0, cache_io, abort, prev, cmp>>

\* line 203: the persisted document cannot be parsed, ParseError ends main
ParseFails ==
    /\ InLoop
    /\ ParseRaises(assets[Name])
    /\ new_cache' = WithEntry
    /\ Dies("parse")
    /\ UNCHANGED <<need_commit, assets, fetched, sent, wrote, raised>>

\* lines 217-218: client.get raises (timeout, transport failure); nothing
\* catches it, main ends
FetchRaises ==
    /\ InLoop
    /\ ~ParseRaises(assets[Name])
    /\ new_cache' = WithEntry
    /\ sent' = [sent EXCEPT ![Name] = etag]
    /\ fetched' = [fetched EXCEPT ![Name] = [NotFetched EXCEPT !.kind = "raise"]]
    /\ Dies("fetch")
    /\ UNCHANGED <<need_commit, assets, wrote, raised>>

\* lines 219-221: 304, the answer to a request that carried If-None-Match
NotModified ==
    /\ InLoop
    /\ ~ParseRaises(assets[Name])
    /\ etag # NoEtag
    /\ new_cache' = WithEntry
    /\ sent' = [sent EXCEPT ![Name] = etag]
    /\ fetched' = [fetched EXCEPT ![Name] = [NotFetched EXCEPT !.kind = "304"]]
    /\ Continues
    /\ UNCHANGED <<need_commit, assets, wrote, raised>>

\* mutation: a failed fetch counts as a change
FetchError_Commits ==
    /\ InLoop
    /\ ~ParseRaises(assets[Name])
    /\ new_cache' = WithEntry
    /\ sent' = [sent EXCEPT ![Name] = etag]
    /\ fetched' = [fetched EXCEPT ![Name] = [NotFetched EXCEPT !.kind = "error"]]
    /\ need_commit' = TRUE
    /\ Continues
    /\ UNCHANGED <<assets, wrote, raised>>

\* lines 222-224: any status other than 200 and 304
FetchError ==
    /\ InLoop
    /\ ~ParseRaises(assets[Name])
    /\ new_cache' = WithEntry
    /\ sent' = [sent EXCEPT ![Name] = etag]
    /\ fetched' = [fetched EXCEPT ![Name] = [NotFetched EXCEPT !.kind = "error"]]
    /\ Continues
    /\ UNCHANGED <<need_commit, assets, wrote, raised>>

\* lines 225-232 after a 200: the parts common to the four outcomes
Fetched(header, issues) ==
    /\ ~ParseRaises(assets[Name])
    /\ new_cache' = WithEtag(header)
    /\ sent' = [sent EXCEPT ![Name] = etag]
    /\ fetched' = [fetched EXCEPT ![Name] =
                     [kind |-> "200", etag |-> header, issues |-> issues]]

\* line 229 raises on a malformed issue record; nothing catches it
BuildRaises ==
    /\ InLoop
    /\ \E header \in Etags \cup {NoEtag}, issues \in Upstream(Name) :
        /\ Fetched(header, issues)
        /\ ~Built(issues).ok
        /\ Dies("build")
        /\ UNCHANGED <<need_commit, assets, wrote, raised>>

\* line 230 is false: the feed is unchanged
FeedUnchanged ==
    /\ InLoop
    /\ \E header \in Etags \cup {NoEtag}, issues \in Upstream(Name) :
        /\ Fetched(header, issues)
        /\ Built(issues).ok
        /\ ~Changed(Built(issues).doc, get_feed_info(assets[Name]))
        /\ Continues
        /\ UNCHANGED <<need_commit, assets, wrote, raised>>

\* lines 230-232: the feed changed (or force), the document is written
FeedChanged ==
    /\ InLoop
    /\ \E header \in Etags \cup {NoEtag}, issues \in Upstream(Name) :
        /\ Fetched(header, issues)
        /\ Built(issues).ok
        /\ Changed(Built(issues).doc, get_feed_info(assets[Name]))
        /\ need_commit' = TRUE
        /\ raised' = raised \cup {Name}
        /\ assets' = [assets EXCEPT ![Name] = write(Built(issues).doc)]
        /\ wrote' = wrote \cup {Name}
        /\ Continues

\* mutation: the OSError of line 232 is swallowed and the loop goes on
WriteRaises_Swallowed ==
    /\ InLoop
    /\ \E header \in Etags \cup {NoEtag}, issues \in Upstream(Name) :
        /\ Fetched(header, issues)
        /\ Built(issues).ok
        /\ Changed(Built(issues).doc, get_feed_info(assets[Name]))
        /\ need_commit' = TRUE
        /\ raised' = raised \cup {Name}
        /\ \E left \in {assets[Name], Corrupt} :
              assets' = [assets EXCEPT ![Name] = left]
        /\ Continues
        /\ UNCHANGED <<wrote>>

\* line 232 raises (OSError): need_commit is already set; the file is left
\* as it was when it could not be opened, truncated when the write broke off
WriteRaises ==
    /\ InLoop
    /\ \E header \in Etags \cup {NoEtag}, issues \in Upstream(Name) :
        /\ Fetched(header, issues)
        /\ Built(issues).ok
        /\ Changed(Built(issues).doc, get_feed_info(assets[Name]))
        /\ need_commit' = TRUE
        /\ raised' = raised \cup {Name}
        /\ \E left \in {assets[Name], Corrupt} :
              assets' = [assets EXCEPT ![Name] = left]
        /\ Dies("write")
        /\ UNCHANGED <<wrote>>

\* mutation: the cache is written whenever it is enabled
ShouldWriteCache_Always == enable_cache

\* line 233
ShouldWriteCache == new_cache # cache /\ enable_cache

\* mutation: the token does not follow the flag
Token_Commit(flag) == "commit"

\* lines 235-238
Token(flag) == IF flag THEN "commit" ELSE "skip"

\* lines 233-238: after the loop, persist the cache and print the token
Finish ==
    /\ pc = "loop"
    /\ idx > Len(config.order)
    /\ IF ShouldWriteCache
       THEN /\ req_cache' = [exists |-> TRUE, data |-> new_cache]
            /\ cache_io' = [cache_io EXCEPT !.writes = @ + 1]
       ELSE UNCHANGED <<req_cache, cache_io>>
    /\ stdout' = Append(stdout, Token(need_commit))
    /\ pc' = "done"
    /\ UNCHANGED <<run, force, enable_cache, config, cache, new_cache,
                   need_commit, idx, assets, fetched, sent, wrote, raised,
                   assets0, req_cache0, abort, prev, cmp>>

Next ==
    \/ Start
    \/ ParseFails
    \/ FetchRaises
    \/ NotModified
    \/ FetchError
    \/ BuildRaises
    \/ FeedUnchanged
    \/ FeedChanged
    \/ WriteRaises
    \/ Finish

Spec == Init /\ [][Next]_vars

TypeOK ==
    /\ pc \in {"idle", "loop", "done", "aborted"}
    /\ run \in 0..MaxRuns
    /\ idx \in 1..(Len(config.order) + 1)

----------------------------------------------------------------------------
(* Two consecutive runs with the force flag off and the same config.json:  *)
(* the first on an empty store, the second right after the first ended.    *)
(* ParseFails is left out: no document is corrupt when a run has ended.    *)

StartFirst ==
    /\ pc = "idle"
    /\ run = 0
    /\ \E c \in BOOLEAN, cfg \in Configs : main(FALSE, c, cfg)
    /\ UNCHANGED prev

StartSecond ==
    /\ pc = "done"
    /\ run = 1
    /\ \E c \in BOOLEAN : main(FALSE, c, config)
    /\ prev' = fetched

NextTwice ==
    \/ StartFirst
    \/ StartSecond
    \/ FetchRaises
    \/ NotModified
    \/ FetchError
    \/ BuildRaises
    \/ FeedUnchanged
    \/ FeedChanged
    \/ WriteRaises
    \/ Finish

SpecTwice == Init /\ [][NextTwice]_vars

----------------------------------------------------------------------------
(* Build and compare in isolation: a feed is built from an issue list and  *)
(* persisted, a feed is built again (from another list, under the same or  *)
(* another configuration) and compared with what was persisted.            *)

MaxIssues == 2

\* issue 1 and the same issue with one field changed
Body1 == <<"x", CR, LF, "y", CR, LF, CR, LF, "z">>
CmpIssues ==
    {Issue1, Issue1Edit, Issue2, IssueCr,
     Issue("alice", 1, <<"a">>, <<"w", CR, LF, "y", CR, LF, CR, LF, "z">>, <<>>),
     Issue("alice", 1, <<"a">>, Body1, <<"bug">>),
     Issue("alice", 1, <<"a">>, Body1, <<"critical">>),
     Issue("Bob", 1, <<"a">>, Body1, <<>>),
     Issue("carol", 1, <<"a">>, Body1, <<>>),
     Issue("alice", 3, <<"e">>, <<"x", LF, "y">>, <<"critical">>)}

\* the bijections of 1..n
Perms(n) == {p \in [1..n -> 1..n] : \A i, j \in 1..n : p[i] = p[j] => i = j}

\* issue lists as the tracker returns them: no issue number twice
CmpLists ==
    UNION {{[i \in 1..Len(p) |-> p[i]] : p \in
              {q \in [1..n -> CmpIssues] :
                  \A i, j \in 1..n : q[i].number = q[j].number => i = j}}
           : n \in 0..MaxIssues}

CmpOptions == {ConfigA.opts["f1"], ConfigB.opts["f1"]}

CmpInputs ==
    {[stage |-> "input", options_old |-> oo, options_new |-> on,
      old |-> lo, new |-> ln, file |-> NoFile, result |-> FALSE]
       : oo \in CmpOptions, on \in {ConfigB.opts["f1"]},
         lo \in CmpLists, ln \in CmpLists}

CmpInit ==
    /\ InitMain
    /\ cmp \in CmpInputs

mainvars == <<pc, run, force, enable_cache, config, cache, new_cache,
              need_commit, idx, assets, req_cache, stdout, fetched, sent,
              wrote, raised, assets0, req_cache0, cache_io, abort, prev>>

\* the feed built from the issue list under the options, at time now
CmpBuild(options, issues, now) ==
    add_items_from_issues(
        RssDocument("f1", options, hash_config("f1", options), now), issues)

\* the first build is written to the feed document
Persist ==
    /\ cmp.stage = "input"
    /\ CmpBuild(cmp.options_old, cmp.old, 1).ok
    /\ cmp' = [cmp EXCEPT !.stage = "persisted",
                          !.file = write(CmpBuild(cmp.options_old, cmp.old, 1).doc)]
    /\ UNCHANGED mainvars

\* the second build is compared with the feed document (or with none)
Compare ==
    /\ cmp.stage \in {"input", "persisted"}
    /\ CmpBuild(cmp.options_new, cmp.new, 2).ok
    /\ cmp' = [cmp EXCEPT !.stage = "compared",
                          !.result = equals(CmpBuild(cmp.options_new, cmp.new, 2).doc,
                                            get_feed_info(cmp.file))]
    /\ UNCHANGED mainvars

CmpNext ==
    \/ Persist
    \/ Compare

SpecCmp == CmpInit /\ [][CmpNext]_vars

----------------------------------------------------------------------------
(* What a run was given and what it did, read off the state *)

\* the feeds of config.json
Feeds == {config.order[i] : i \in 1..Len(config.order)}

\* the etag of the entry of feed f in the cache map d, NoEtag without one
EtagIn(d, f) ==
    IF f \in DOMAIN d /\ "etag" \in DOMAIN d[f] THEN d[f]["etag"] ELSE NoEtag

\* the cache map that the cache file held when the run started
Loaded == IF req_cache0.exists THEN req_cache0.data ELSE EmptyDict

\* the feed that this run built for f from the issues it fetched
BuiltOf(f) ==
    add_items_from_issues(
        RssDocument(f, config.opts[f], hash_config(f, config.opts[f]), run),
        fetched[f].issues)

\* f ended in NOT_MODIFIED or in FETCH_ERROR (a status other than 200)
Skipped(f) == fetched[f].kind \in {"304", "error"}

\* f was fetched with status 200
Got200(f) == fetched[f].kind = "200"

\* f was fetched and built and reached the comparison of line 230
Compared(f) == Got200(f) /\ BuiltOf(f).ok

\* the comparison of line 230 for f said: not equal
Differs(f) == ~equals(BuiltOf(f).doc, get_feed_info(assets0[f]))

DiedAt(f, why) == pc = "aborted" /\ abort.at = f /\ abort.why = why

----------------------------------------------------------------------------
(* C1 *)

\* C1: a fetch failure of a feed (a status other than 200 and 304, a
\* transport failure, a timeout) stays local to that feed: the run does not
\* end at that feed.
C1_FetchFailureNeverAborts ==
    \A f \in Names :
        fetched[f].kind \in {"error", "raise"} => ~(pc = "aborted" /\ abort.at = f)

----------------------------------------------------------------------------
(* C2 *)

\* the entry of feed f in the cache map d, as a sequence of zero or one entry
EntryIn(d, f) == IF f \in DOMAIN d THEN <<d[f]>> ELSE <<>>

----------------------------------------------------------------------------
(* C3 *)

\* C3: a feed that ended in NOT_MODIFIED or FETCH_ERROR has the persisted
\* document it had before the run (none if it had none), did not raise the
\* change flag, and when every feed of the run ended this way the token is
\* skip.
C3_SkippedFeedUntouched ==
    /\ \A f \in Names :
          Skipped(f) => /\ assets[f] = assets0[f]
                        /\ f \notin wrote
                        /\ f \notin raised
    /\ (\A f \in Feeds : Skipped(f)) =>
          /\ ~need_commit
          /\ pc = "done" => stdout = <<"skip">>

\* a run in which one feed had a document and answered 304, the other failed,
\* and skip was printed
C3_Witness ==
    /\ pc = "done"
    /\ stdout = <<"skip">>
    /\ \E f, g \in Feeds :
          /\ fetched[f].kind = "304" /\ assets0[f].kind = "xml"
          /\ fetched[g].kind = "error"

----------------------------------------------------------------------------
(* C4 *)

\* what holds of the token in every state of a run
C4_TokenState ==
    /\ Len(stdout) <= 1
    /\ pc = "done" <=> Len(stdout) = 1
    /\ Len(stdout) = 1 =>
          /\ idx > Len(config.order)
          /\ \A f \in Feeds : fetched[f].kind \in {"304", "error", "200"}
          /\ stdout[1] \in {"commit", "skip"}
          /\ stdout[1] = "commit" <=> wrote # {}
          /\ stdout[1] = "skip" <=> wrote = {}
          /\ wrote = raised

\* C4: a run prints one token, after all feeds were processed: commit if and
\* only if a document was written in this run, skip otherwise; once the flag
\* is raised it stays raised until the run is over, and the token printed is
\* never taken back or followed by another.
C4_OneTokenAfterAllFeeds ==
    /\ []C4_TokenState
    /\ [][(need_commit /\ run' = run) => need_commit']_vars
    /\ [][(stdout # <<>> /\ run' = run) => stdout' = stdout]_vars

\* a run that wrote the document of its second feed only and printed commit
C4_Witness ==
    /\ pc = "done"
    /\ stdout = <<"commit">>
    /\ Len(config.order) = 2
    /\ wrote = {config.order[2]}

----------------------------------------------------------------------------
(* C6 *)

\* C6: for a feed fetched with 200 (and built, so that line 230 is reached),
\* the change flag is raised for it, and its document written, if and only
\* if the force-override is set or the comparator says not equal; the one
\* exception to "written" is a write that raised, which ends the run.  With
\* force set every such feed is written and a run that ends prints commit.
C6_WrittenIffChangedOrForce ==
    /\ \A f \in Names :
          Compared(f) =>
             /\ f \in raised <=> (force \/ Differs(f))
             /\ ~DiedAt(f, "write") => (f \in wrote <=> (force \/ Differs(f)))
             /\ f \in wrote => assets[f] = write(BuiltOf(f).doc)
             /\ f \notin wrote /\ ~DiedAt(f, "write") => assets[f] = assets0[f]
    /\ (pc = "done" /\ force /\ \E f \in Feeds : Got200(f)) => stdout = <<"commit">>

\* force set, a feed whose fresh build equals its persisted document, written
\* all the same and commit printed
C6_Witness ==
    \E f \in Feeds :
        /\ pc = "done"
        /\ force
        /\ Compared(f)
        /\ ~Differs(f)
        /\ f \in wrote
        /\ stdout = <<"commit">>

\* force off: one feed unchanged and not written, the other changed and written
C6_WitnessNoForce ==
    \E f, g \in Feeds :
        /\ pc = "done" /\ ~force
        /\ Compared(f) /\ ~Differs(f) /\ f \notin wrote
        /\ Compared(g) /\ Differs(g) /\ g \in wrote

----------------------------------------------------------------------------
(* C9 *)

\* C9: a malformed issue record fails the feed it belongs to and nothing
\* else: the document and the cache file are as before, and the run goes on.
C9_MalformedIssueIsLocal ==
    \A f \in Names :
        (Got200(f) /\ ~BuiltOf(f).ok) =>
            /\ assets[f] = assets0[f]
            /\ pc # "done" => req_cache = req_cache0
            /\ pc # "aborted"

----------------------------------------------------------------------------
(* C10 *)

\* C10: the cache file is written at most once per run, after all feeds, and
\* exactly when caching is enabled and the map built differs from the map
\* loaded; with caching disabled the file is neither read nor written and no
\* conditional token is sent.
C10_CacheWrittenOnceIfDirty ==
    /\ cache_io.writes <= 1
    /\ cache_io.writes = 0 => req_cache = req_cache0
    /\ cache_io.writes = 1 =>
          /\ pc = "done"
          /\ idx > Len(config.order)
          /\ req_cache = [exists |-> TRUE, data |-> new_cache]
    /\ pc = "done" => (cache_io.writes = 1 <=> (enable_cache /\ new_cache # Loaded))
    /\ enable_cache /\ pc # "idle" => cache = Loaded
    /\ ~enable_cache =>
          /\ cache_io = [reads |-> 0, writes |-> 0]
          /\ cache = EmptyDict
          /\ \A f \in Names : sent[f] = NoEtag

\* caching enabled, a cache file read, every feed not modified under the same
\* configuration: the map is as loaded and the file is not written
C10_Witness ==
    /\ pc = "done"
    /\ enable_cache
    /\ cache_io = [reads |-> 1, writes |-> 0]
    /\ new_cache = cache
    /\ \A f \in Feeds : fetched[f].kind = "304"

\* caching disabled while a cache file with tokens exists
C10_WitnessDisabled ==
    /\ pc = "done"
    /\ ~enable_cache
    /\ req_cache.exists
    /\ \E f \in Feeds : EtagIn(req_cache.data, f) # NoEtag

----------------------------------------------------------------------------
(* C5 *)

\* the second run was given for f what the first was given: the same answer,
\* or not-modified where the first got the issue list
SameUpstream(f) ==
    \/ /\ fetched[f].kind \in {"200", "error"}
       /\ fetched[f].kind = prev[f].kind
       /\ fetched[f].issues = prev[f].issues
    \/ /\ fetched[f].kind = "304"
       /\ prev[f].kind = "200"

\* C5: force off, same configuration.  A first run that fetched a feed with
\* no prior document wrote it and printed commit; the run right after, given
\* the same upstream data, wrote nothing and printed skip.
C5_SecondRunSkips ==
    /\ (run = 1 /\ pc = "done") =>
          \A f \in Feeds :
              (Got200(f) /\ assets0[f] = NoFile) =>
                  f \in wrote /\ stdout = <<"commit">>
    /\ (run = 2 /\ pc = "done"
          /\ (\E f \in Feeds : prev[f].kind = "200")
          /\ \A f \in Feeds : SameUpstream(f)) =>
          wrote = {} /\ stdout = <<"skip">>

----------------------------------------------------------------------------
(* C7 *)

FieldsCompared == {"title", "link", "description", "pubDate", "category"}

\* the items of a persisted feed document as they are read back
ReadBack(file) == get_feed_info(file).root.items

\* the feed built for the comparison
CmpDoc == CmpBuild(cmp.options_new, cmp.new, 2).doc

\* equals as C7 states it
C7_Stated(doc, file) ==
    /\ file.kind = "xml"
    /\ file.config_hash = doc.cfg_hash
    /\ Len(doc.items) = Len(file.items)
    /\ \A i \in 1..Len(doc.items) :
          /\ doc.items[i].guid # <<>>
          /\ \E j \in 1..Len(file.items) :
                /\ ReadBack(file)[j].guid = doc.items[i].guid
                /\ \A tag \in FieldsCompared :
                      ReadBack(file)[j][tag] = doc.items[i][tag]

\* the items of a document or file in the order p
Reordered(d, p) == [d EXCEPT !.items = [i \in 1..Len(d.items) |-> d.items[p[i]]]]

\* C7: equals is true exactly when a previous document exists, the config
\* hashes agree, the item counts agree and every current item has a guid
\* found among the previous items with equal title, link, description,
\* pubDate and category; the order of the items of either feed does not
\* matter.
C7_EqualsIsSetComparison ==
    cmp.stage = "compared" =>
        /\ cmp.result = C7_Stated(CmpDoc, cmp.file)
        /\ cmp.file.kind = "xml" =>
              \A p \in Perms(Len(cmp.file.items)) :
                  equals(CmpDoc, get_feed_info(Reordered(cmp.file, p))) = cmp.result
        /\ \A p \in Perms(Len(CmpDoc.items)) :
              equals(Reordered(CmpDoc, p), get_feed_info(cmp.file)) = cmp.result

\* two items persisted, the same two built in the other order: equal
C7_Witness ==
    /\ cmp.stage = "compared"
    /\ cmp.result
    /\ Len(cmp.file.items) = 2
    /\ CmpDoc.items[1].guid = cmp.file.items[2].guid
    /\ CmpDoc.items[2].guid = cmp.file.items[1].guid

----------------------------------------------------------------------------
(* C8 *)

\* the text of the body that the description is derived from
FirstParagraph(body) == first_paragraph(strip(body))

\* issue b is issue a with exactly the given field changed
ChangedIn(a, b, field) ==
    /\ DOMAIN a = DOMAIN b
    /\ a # b
    /\ \A k \in DOMAIN a : k # field => a[k] = b[k]
    /\ field = "body" => FirstParagraph(a.body) # FirstParagraph(b.body)
    /\ field = "labels" =>
          {a.labels[i].name : i \in 1..Len(a.labels)} #
          {b.labels[i].name : i \in 1..Len(b.labels)}

FieldsOfC8 == {"title", "body", "labels", "user"}

CmpAuthorized(issue) ==
    IsAuthorized(RssDocument("f1", cmp.options_new, None, 0), issue)

\* the compared lists are the persisted list and that list with one field of
\* the authorized issue at position k changed, under one configuration
OneFieldChangedAt(k) ==
    /\ cmp.stage = "compared"
    /\ cmp.file.kind = "xml"
    /\ cmp.options_old = cmp.options_new
    /\ Len(cmp.old) = Len(cmp.new)
    /\ k \in 1..Len(cmp.old)
    /\ \A i \in 1..Len(cmp.old) : i # k => cmp.old[i] = cmp.new[i]
    /\ CmpAuthorized(cmp.old[k])
    /\ \E field \in FieldsOfC8 : ChangedIn(cmp.old[k], cmp.new[k], field)

\* C8 as stated: the change of any one field of an authorized issue makes the
\* rebuilt feed unequal to the persisted one.
C8_AnyFieldChangeDiffers ==
    \A k \in 1..MaxIssues : OneFieldChangedAt(k) => ~cmp.result

\* the item of an issue as built under the configuration of the comparison
CmpItem(issue) == make_item(RssDocument("f1", cmp.options_new, None, 0), issue)

\* C8 amended: the change of one field of an authorized issue makes the
\* rebuilt feed unequal to the persisted one when it shows in the feed: the
\* author is no longer authorized, or the title, description or category of
\* the rebuilt item differs from the item read back from the persisted
\* document.  A change that leaves the item as it was (a label other than
\* "critical", another authorized author) compares as the unchanged list
\* does.
C8_ChangeOfItemDiffers ==
    \A k \in 1..MaxIssues :
        OneFieldChangedAt(k) =>
            /\ ~CmpAuthorized(cmp.new[k]) => ~cmp.result
            /\ (/\ CmpAuthorized(cmp.new[k])
                /\ \E tag \in {"title", "description", "category"} :
                      CmpItem(cmp.new[k])[tag] # xml_item(CmpItem(cmp.old[k]))[tag])
                  => ~cmp.result
            /\ (/\ CmpAuthorized(cmp.new[k])
                /\ CmpItem(cmp.new[k]) = CmpItem(cmp.old[k]))
                  => cmp.result = equals(CmpBuild(cmp.options_new, cmp.old, 2).doc,
                                         get_feed_info(cmp.file))

\* the title of an issue changed, and the feeds compare unequal
C8_Witness ==
    \E k \in 1..MaxIssues :
        /\ OneFieldChangedAt(k)
        /\ ChangedIn(cmp.old[k], cmp.new[k], "title")
        /\ ~cmp.result

\* a label added that is not "critical", and the feeds compare equal
C8_WitnessLabel ==
    \E k \in 1..MaxIssues :
        /\ OneFieldChangedAt(k)
        /\ ChangedIn(cmp.old[k], cmp.new[k], "labels")
        /\ cmp.result

(***************************************************************************)
(* C11: a feed that was fetched and found unchanged                        *)
(***************************************************************************)

\* the entry of feed f in the cache file, empty without one
FileEntry(f) ==
    IF req_cache.exists /\ f \in DOMAIN req_cache.data
    THEN req_cache.data[f] ELSE EmptyDict

\* C11: when a feed is fetched with status 200 and the comparison of
\* line 230 finds it equal to the persisted document with force off, the
\* document file is left as it was, the feed does not raise need_commit,
\* and the feed's entry in new_cache holds the ETag of this response (the
\* loaded one when the response has none) with the config hash of this
\* run; when the run ends with caching enabled the cache file holds that
\* entry.
C11_UnchangedFeedKeepsToken ==
    \A f \in Names :
        (Compared(f) /\ ~force /\ ~Differs(f)) =>
            /\ f \notin wrote
            /\ f \notin raised
            /\ assets[f] = assets0[f]
            /\ f \in DOMAIN new_cache
            /\ new_cache[f]["config_hash"] = hash_config(f, config.opts[f])
            /\ EtagIn(new_cache, f) =
                  IF fetched[f].etag # NoEtag THEN fetched[f].etag
                  ELSE EtagIn(cache, f)
            /\ (pc = "done" /\ enable_cache) => FileEntry(f) = new_cache[f]

\* a finished run with caching enabled in which an unchanged feed came
\* back with an ETag other than the cached one, and the file now holds it
C11_Witness ==
    /\ pc = "done" /\ enable_cache /\ ~force
    /\ \E f \in Feeds :
        /\ Compared(f) /\ ~Differs(f)
        /\ f \notin wrote
        /\ EtagIn(cache, f) # NoEtag
        /\ fetched[f].etag \notin {NoEtag, EtagIn(cache, f)}
        /\ EtagIn(req_cache.data, f) = fetched[f].etag
        /\ cache_io.writes = 1

(***************************************************************************)
(* C12: a document write that fails                                        *)
(***************************************************************************)

\* C12: a feed whose document write failed (it raised need_commit at line
\* 231 and line 232 did not complete) never leads to the token "commit":
\* the run has aborted at that feed and has printed nothing; and a run
\* that prints a token has completed the write of every feed that raised
\* need_commit.
C12_FailedWriteReportsNoCommit ==
    /\ \A f \in Names :
          (f \in raised /\ f \notin wrote) =>
              /\ DiedAt(f, "write")
              /\ stdout = <<>>
    /\ stdout # <<>> => raised = wrote

\* the write of the second feed broke off after the first feed was written
\* and need_commit was raised: nothing is printed
C12_Witness ==
    /\ Len(config.order) = 2
    /\ DiedAt(config.order[2], "write")
    /\ need_commit
    /\ wrote = {config.order[1]}
    /\ raised = Feeds
    /\ assets[config.order[2]] = Corrupt
    /\ stdout = <<>>

(***************************************************************************)
(* C13: the items of a built feed                                          *)
(***************************************************************************)

\* the positions of the issues whose author is named in authorized_creators,
\* letter case ignored on both sides
C13_Kept(options, issues) ==
    {i \in 1..Len(issues) :
        \E k \in 1..Len(options.authorized_creators) :
            Lower(issues[i].user.login) = Lower(options.authorized_creators[k])}

\* the feed doc built from issues under options has one item for each
\* kept issue, at the rank of that issue among the kept ones
C13_ItemsAre(doc, options, issues) ==
    LET K == C13_Kept(options, issues)
    IN  /\ Len(doc.items) = Cardinality(K)
        /\ \A i \in K :
              doc.items[Cardinality({k \in K : k <= i})] = make_item(doc, issues[i])

\* C13: the items of a built feed are exactly the issues whose author,
\* compared without regard to letter case, is in authorized_creators: one
\* item per such issue, in the order of the issue list, and no item for
\* any other issue. Stated of both builds of a comparison.
C13_ItemsAreAuthorizedIssues ==
    cmp.stage = "compared" =>
        /\ C13_ItemsAre(CmpDoc, cmp.options_new, cmp.new)
        /\ cmp.file # NoFile =>
              C13_ItemsAre(CmpBuild(cmp.options_old, cmp.old, 1).doc,
                           cmp.options_old, cmp.old)

\* a list of an unauthorized author's issue followed by the issue of
\* "Alice" (authorized as "alice") gave a feed of that one item
C13_Witness ==
    /\ cmp.stage = "compared"
    /\ Len(cmp.new) = 2
    /\ cmp.new[1].user.login = "carol"
    /\ cmp.new[2].user.login = "Alice"
    /\ Len(CmpDoc.items) = 1
    /\ CmpDoc.items[1].guid = make_guid(CmpDoc.repo, cmp.new[2].number)

(***************************************************************************)
(* C14: a rebuilt feed against its own persisted copy                      *)
(***************************************************************************)

\* C14: for every configuration and every issue list, the feed built from
\* them at a later time compares equal to the persisted copy of the feed
\* built from the same configuration and the same list.
C14_RebuildEqualsPersisted ==
    (/\ cmp.stage = "compared"
     /\ cmp.file # NoFile
     /\ cmp.options_old = cmp.options_new
     /\ cmp.old = cmp.new) => cmp.result

(***************************************************************************)
(* C15: hash_config on its own                                             *)
(***************************************************************************)

\* the insertion orders a feed's options can have in config.json
KeyOrders == {[i \in 1..Len(KeysAsRead) |-> KeysAsRead[p[i]]] :
                 p \in Perms(Len(KeysAsRead))}

\* two calls of hash_config: (name1, options1 inserted in order keys1) and
\* (name2, options2 inserted in order keys2)
HashInputs ==
    {[stage |-> "hash_input",
      name1 |-> n1, keys1 |-> k1, options1 |-> o1, hash1 |-> sha256(<<>>),
      name2 |-> n2, keys2 |-> k2, options2 |-> o2, hash2 |-> sha256(<<>>)]
       : n1 \in Names, n2 \in Names, k1 \in {KeysAsRead}, k2 \in KeyOrders,
         o1 \in HashOptions, o2 \in HashOptions}

HashInit ==
    /\ InitMain
    /\ cmp \in HashInputs

HashFirst ==
    /\ cmp.stage = "hash_input"
    /\ cmp' = [cmp EXCEPT !.stage = "hashed_first",
                          !.hash1 = hash_config_of(cmp.name1,
                                       dict_items(cmp.keys1, cmp.options1))]
    /\ UNCHANGED mainvars

HashSecond ==
    /\ cmp.stage = "hashed_first"
    /\ cmp' = [cmp EXCEPT !.stage = "hashed",
                          !.hash2 = hash_config_of(cmp.name2,
                                       dict_items(cmp.keys2, cmp.options2))]
    /\ UNCHANGED mainvars

HashNext ==
    \/ HashFirst
    \/ HashSecond

SpecHash == HashInit /\ [][HashNext]_vars

\* C15: the hash of (name, options) is the same for every insertion order
\* of the options' keys, and two hashes are equal only when the names are
\* equal and the options have the same keys and values.
C15_HashIgnoresKeyOrderOnly ==
    cmp.stage = "hashed" =>
        /\ cmp.hash1 = hash_config(cmp.name1, cmp.options1)
        /\ cmp.hash2 = hash_config(cmp.name2, cmp.options2)
        /\ (cmp.hash1 = cmp.hash2) <=>
              (cmp.name1 = cmp.name2 /\ cmp.options1 = cmp.options2)

\* the same name and options, inserted in reverse key order the second
\* time, gave the same hash
C15_Witness ==
    /\ cmp.stage = "hashed"
    /\ cmp.name1 = cmp.name2
    /\ cmp.options1 = cmp.options2
    /\ cmp.keys2 = [i \in 1..Len(cmp.keys1) |-> cmp.keys1[Len(cmp.keys1) + 1 - i]]
    /\ cmp.hash1 = cmp.hash2

\* options that differ only in the order of authorized_creators gave
\* different hashes
C15_WitnessDiffers ==
    /\ cmp.stage = "hashed"
    /\ cmp.name1 = cmp.name2
    /\ cmp.options1 = ConfigB.opts["f1"]
    /\ cmp.options2 = [ConfigA.opts["f1"] EXCEPT !.authorized_creators = <<"Bob", "Alice">>]
    /\ cmp.hash1 # cmp.hash2

(***************************************************************************)
(* C16: the length of a description                                        *)
(***************************************************************************)

\* how far the first paragraphs tried reach below and above DescLimit
DescMargin == 8

\* n characters, no two neighbours alike
Text(n) == [i \in 1..n |-> IF i % 2 = 1 THEN "a" ELSE "b"]

\* the lengths of the first paragraphs tried
DescLens == 0..2 \cup ((DescLimit - DescMargin)..(DescLimit + DescMargin))

\* issue bodies, each with the first paragraph it holds once its line
\* breaks are collapsed: bare, wrapped in whitespace, followed by a second
\* paragraph, and broken in two lines
DescInputs ==
    {[stage |-> "body", para |-> Text(n), body |-> Text(n), desc |-> <<>>]
        : n \in DescLens}
    \cup
    {[stage |-> "body", para |-> Text(n),
      body |-> <<SP, LF>> \o Text(n) \o <<CR, LF, SP>>, desc |-> <<>>]
        : n \in DescLens \ {0}}
    \cup
    {[stage |-> "body", para |-> Text(n),
      body |-> Text(n) \o <<CR, LF, CR, LF>> \o Text(DescMargin), desc |-> <<>>]
        : n \in DescLens \ {0}}
    \cup
    {[stage |-> "body", para |-> Text(1) \o <<SP>> \o Text(n - 2),
      body |-> Text(1) \o <<CR, LF>> \o Text(n - 2), desc |-> <<>>]
        : n \in DescLens \ 0..2}

DescInit ==
    /\ InitMain
    /\ cmp \in DescInputs

\* lines 81-86 applied to the body
Describe ==
    /\ cmp.stage = "body"
    /\ cmp' = [cmp EXCEPT !.stage = "described",
                          !.desc = description(cmp.body)]
    /\ UNCHANGED mainvars

DescNext == Describe

SpecDesc == DescInit /\ [][DescNext]_vars

\* C16: a description has at most 512 characters; when the first
\* paragraph of the body, its line breaks collapsed to spaces, is longer
\* than 512 the description is the first 509 characters of it followed by
\* "...", 512 characters in all; otherwise it is that paragraph unchanged.
C16_DescriptionAtMost512 ==
    cmp.stage = "described" =>
        /\ Len(cmp.desc) <= 512
        /\ Len(cmp.para) > 512 =>
              /\ cmp.desc = SubSeq(cmp.para, 1, 509) \o <<".", ".", ".">>
              /\ Len(cmp.desc) = 512
        /\ Len(cmp.para) <= 512 => cmp.desc = cmp.para

\* a first paragraph of 513 characters, one line break among them, was cut
C16_Witness ==
    /\ cmp.stage = "described"
    /\ Len(cmp.para) = 513
    /\ Len(cmp.body) = 514
    /\ Len(cmp.desc) = 512
    /\ cmp.desc[2] = SP
    /\ SubSeq(cmp.desc, 510, 512) = <<".", ".", ".">>

\* a first paragraph of exactly 512 characters was kept whole
C16_WitnessKept ==
    /\ cmp.stage = "described"
    /\ Len(cmp.para) = 512
    /\ Len(cmp.body) > 512
    /\ cmp.desc = cmp.para

(***************************************************************************)
(* C17: what decides the conditional request                               *)
(***************************************************************************)

\* the config hash of the loaded entry of f is not the one of this run
StaleConfig(f) ==
    /\ f \in DOMAIN cache
    /\ "config_hash" \in DOMAIN cache[f]
    /\ cache[f]["config_hash"] # hash_config(f, config.opts[f])

\* C17: the ETag sent with the request for a feed is the ETag of the
\* feed's entry in the loaded cache, none when the entry has none or there
\* is no entry, whatever config hash the entry stores; and a feed answered
\* with 304 is not rewritten in that run even when its stored config hash
\* differs from the current one.
C17_RequestFollowsStoredToken ==
    \A f \in Names :
        /\ fetched[f].kind # "none" => sent[f] = EtagIn(cache, f)
        /\ (fetched[f].kind = "304" /\ StaleConfig(f)) =>
              /\ f \notin wrote
              /\ assets[f] = assets0[f]

\* the configuration of a feed changed since its document and its cache
\* entry were written; the stored ETag was sent all the same, the answer
\* was 304 and the run ended with the stale document in place
C17_Witness ==
    /\ pc = "done"
    /\ \E f \in Feeds :
        /\ StaleConfig(f)
        /\ sent[f] # NoEtag
        /\ sent[f] = cache[f]["etag"]
        /\ fetched[f].kind = "304"
        /\ assets[f].kind = "xml"
        /\ assets[f].config_hash # hash_config(f, config.opts[f])

(***************************************************************************)
(* C18: the keys of a written cache file                                   *)
(***************************************************************************)

\* C18: when a run has written the cache file, the keys of the file are
\* exactly the feed names of the configuration of that run and every entry
\* carries the config hash computed in that run; an entry that was loaded
\* for a name no longer configured is not in the file.
C18_WrittenCacheHasConfiguredFeeds ==
    cache_io.writes > 0 =>
        /\ pc = "done"
        /\ req_cache.exists
        /\ DOMAIN req_cache.data = Feeds
        /\ \A f \in Feeds :
              req_cache.data[f]["config_hash"] = hash_config(f, config.opts[f])
        /\ \A g \in DOMAIN cache : g \notin Feeds => g \notin DOMAIN req_cache.data

\* an entry with an ETag was loaded for a feed that the configuration no
\* longer names; the file written by this run does not have it
C18_Witness ==
    /\ pc = "done"
    /\ cache_io.writes = 1
    /\ \E g \in DOMAIN cache :
        /\ g \notin Feeds
        /\ EtagIn(cache, g) # NoEtag
        /\ g \in DOMAIN req_cache0.data
        /\ g \notin DOMAIN req_cache.data

(***************************************************************************)
(* C19: a run that aborts in the loop                                      *)
(***************************************************************************)

\* C19: when a run has aborted at some feed, the cache file is as it was
\* when the run started and was not written, nothing was printed, every
\* document written for an earlier feed is in place, and an ETag obtained
\* for an earlier feed is in new_cache only: the file has for that feed
\* what it had at the start.
C19_AbortedRunPersistsNothing ==
    pc = "aborted" =>
        /\ req_cache = req_cache0
        /\ cache_io.writes = 0
        /\ stdout = <<>>
        /\ abort.at \notin wrote
        /\ \A f \in wrote : assets[f] = write(BuiltOf(f).doc)
        /\ \A f \in Feeds \ {abort.at} :
              (Got200(f) /\ fetched[f].etag # NoEtag) =>
                  /\ EtagIn(new_cache, f) = fetched[f].etag
                  /\ FileEntry(f) =
                        IF req_cache0.exists /\ f \in DOMAIN req_cache0.data
                        THEN req_cache0.data[f] ELSE EmptyDict

\* caching enabled: the first feed was written and came with an ETag that
\* the cache file does not hold, then the fetch of the second feed raised
C19_Witness ==
    /\ Len(config.order) = 2
    /\ DiedAt(config.order[2], "fetch")
    /\ enable_cache
    /\ wrote = {config.order[1]}
    /\ assets[config.order[1]].kind = "xml"
    /\ fetched[config.order[1]].etag # NoEtag
    /\ EtagIn(new_cache, config.order[1]) = fetched[config.order[1]].etag
    /\ EtagIn(Loaded, config.order[1]) # fetched[config.order[1]].etag
    /\ req_cache = req_cache0
    /\ stdout = <<>>

====
